---- MODULE Spec2Model ----
(***************************************************************************)
(* Model of lib/datasource/rubygems/index.ts: the process-local mirror of  *)
(* the rubygems.org versions feed (module-level lastSync, packageReleases, *)
(* contentLength, updateRubyGemsVersionsPromise), the line parser          *)
(* processLine, the refresh updateRubyGemsVersions, the single-flight gate *)
(* syncVersions and the lookup getRubygemsOrgDependency.                   *)
(*                                                                         *)
(* Strings are sequences of one-character strings, so that trim, split,    *)
(* startsWith and slice are computed as the code computes them.            *)
(***************************************************************************)
EXTENDS Integers, Sequences, FiniteSets, TLC

(***************************************************************************)
(* Bounds of the model.                                                    *)
(***************************************************************************)
\* lines applied in one run of the parser specification
MaxHistory == 3
\* lines of one delta in the parser specification
MaxDeltaLines == 2
\* updateRubyGemsVersions calls in one run of the datasource specification
MaxFetches == 3
\* lookups under way at one time
MaxLookups == 3
\* lines the upstream feed grows to
MaxFeedLines == 4
\* minutes of age of lastSync the clock is followed to
MaxElapsed == 5

(***************************************************************************)
(* String helpers (String.prototype.trim / split / startsWith / slice).    *)
(***************************************************************************)
WhiteSpace == {" ", "\t", "\r", "\n"}

RECURSIVE TrimStart(_)
TrimStart(s) ==
  IF s # <<>> /\ Head(s) \in WhiteSpace THEN TrimStart(Tail(s)) ELSE s

RECURSIVE TrimEnd(_)
TrimEnd(s) ==
  IF s # <<>> /\ s[Len(s)] \in WhiteSpace
    THEN TrimEnd(SubSeq(s, 1, Len(s) - 1))
    ELSE s

Trim(s) == TrimEnd(TrimStart(s))

StartsWith(s, prefix) ==
  /\ Len(s) >= Len(prefix)
  /\ SubSeq(s, 1, Len(prefix)) = prefix

\* s.split(sep) for a one-character separator: always at least one piece
RECURSIVE Split(_, _)
Split(s, sep) ==
  IF \E i \in 1..Len(s) : s[i] = sep
    THEN LET i == CHOOSE k \in 1..Len(s) :
                    /\ s[k] = sep
                    /\ \A j \in 1..(k - 1) : s[j] # sep
         IN  <<SubSeq(s, 1, i - 1)>> \o Split(SubSeq(s, i + 1, Len(s)), sep)
    ELSE <<s>>

\* (' ' + x).slice(1)
copystr(x) == Tail(<<" ">> \o x)

CreatedAtPrefix == <<"c", "r", "e", "a", "t", "e", "d", "_", "a", "t", ":">>
HeaderMarker == <<"-", "-", "-">>

(***************************************************************************)
(* packageReleases: Object.create(null) used as a map, modelled as a       *)
(* function whose domain is the set of keys present.                       *)
(***************************************************************************)
EmptyReleases == [p \in {} |-> <<>>]

HasKey(cache, pkg) == pkg \in DOMAIN cache

\* cache[pkg] = list, creating the key when it is absent
SetKey(cache, pkg, list) ==
  [p \in (DOMAIN cache) \cup {pkg} |-> IF p = pkg THEN list ELSE cache[p]]

\* the filter with its test turned round: (version) => version === deleted
RECURSIVE deleteVersionInverted(_, _)
deleteVersionInverted(list, deletedVersion) ==
  IF list = <<>> THEN <<>>
  ELSE IF Head(list) = deletedVersion
    THEN <<Head(list)>> \o deleteVersionInverted(Tail(list), deletedVersion)
    ELSE deleteVersionInverted(Tail(list), deletedVersion)

\* a removal that stops at the first entry equal to the deleted version
RECURSIVE deleteFirstOccurrence(_, _)
deleteFirstOccurrence(list, deletedVersion) ==
  IF list = <<>> THEN <<>>
  ELSE IF Head(list) = deletedVersion
    THEN Tail(list)
    ELSE <<Head(list)>> \o deleteFirstOccurrence(Tail(list), deletedVersion)

\* Array.prototype.filter((version) => version !== deletedVersion)
RECURSIVE deleteVersion(_, _)
deleteVersion(list, deletedVersion) ==
  IF list = <<>> THEN <<>>
  ELSE IF Head(list) # deletedVersion
    THEN <<Head(list)>> \o deleteVersion(Tail(list), deletedVersion)
    ELSE deleteVersion(Tail(list), deletedVersion)

\* one iteration of the loop over lineVersions
applyLineVersion(list, lineVersion) ==
  IF StartsWith(lineVersion, <<"-">>)
    THEN deleteVersion(list, Tail(lineVersion))
    ELSE Append(list, copystr(lineVersion))

RECURSIVE applyLineVersions(_, _)
applyLineVersions(list, lineVersions) ==
  IF lineVersions = <<>> THEN list
  ELSE applyLineVersions(applyLineVersion(list, Head(lineVersions)),
                         Tail(lineVersions))

\* versions.split(',').map((version) => version.trim())
splitVersions(versions) ==
  LET parts == Split(versions, ",")
  IN  [i \in 1..Len(parts) |-> Trim(parts[i])]

\* packageReleases[pkg] = packageReleases[pkg] || []
ensureEntry(cache, pkg) ==
  IF HasKey(cache, pkg) THEN cache ELSE SetKey(cache, pkg, <<>>)

\* processLine without its try / catch: the TypeError leaves the call
catchLineErrorRethrown(cache) == [releases |-> cache, raised |-> TRUE]

\* what the catch block of processLine does with the TypeError of
\* versions.split on undefined: it logs; the entry statement has already run
catchLineError(cache) == [releases |-> cache, raised |-> FALSE]

\* processLine with the test for the '---' line missing
processLineHeaderAsData(line, cache) ==
  LET l == Trim(line)
  IN  IF Len(l) = 0 \/ StartsWith(l, CreatedAtPrefix)
        THEN [releases |-> cache, raised |-> FALSE]
        ELSE LET split    == Split(l, " ")
                 pkg      == copystr(split[1])
                 entered  == ensureEntry(cache, pkg)
             IN  IF Len(split) < 2
                   THEN catchLineError(entered)
                   ELSE [releases |->
                           SetKey(entered, pkg,
                                  applyLineVersions(entered[pkg],
                                                    splitVersions(split[2]))),
                         raised |-> FALSE]

\* processLine: the cache after the line and whether an error left the call
processLine(line, cache) ==
  LET l == Trim(line)
  IN  IF Len(l) = 0 \/ StartsWith(l, CreatedAtPrefix) \/ l = HeaderMarker
        THEN [releases |-> cache, raised |-> FALSE]
        ELSE LET split    == Split(l, " ")
                 pkg      == copystr(split[1])
                 entered  == ensureEntry(cache, pkg)
             IN  \* [pkg, versions] = split leaves versions undefined when
                 \* the line has one field, and versions.split then throws
                 IF Len(split) < 2
                   THEN catchLineError(entered)
                   ELSE [releases |->
                           SetKey(entered, pkg,
                                  applyLineVersions(entered[pkg],
                                                    splitVersions(split[2]))),
                         raised |-> FALSE]

\* for (const line of newLines.split('\n')) processLine(line): an error that
\* leaves processLine ends the loop
RECURSIVE processLines(_, _)
processLines(lines, cache) ==
  IF lines = <<>> THEN [releases |-> cache, raised |-> FALSE]
  ELSE LET r == processLine(Head(lines), cache)
       IN  IF r.raised THEN r ELSE processLines(Tail(lines), r.releases)

applyBody(newLines, cache) == processLines(Split(newLines, "\n"), cache)

(***************************************************************************)
(* The feed lines the model draws from, each with the reading the feed     *)
(* format gives it: the package it names and its tokens in order.          *)
(***************************************************************************)
PkgA == <<"a">>
PkgB == <<"b">>
V10 == <<"1", ".", "0">>
V11 == <<"1", ".", "1">>
Add(v) == [add |-> TRUE, v |-> v]
Del(v) == [add |-> FALSE, v |-> v]
DataLine(text, pkg, toks) ==
  [text |-> text, kind |-> "data", pkg |-> pkg, toks |-> toks]
OtherLine(text, kind) ==
  [text |-> text, kind |-> kind, pkg |-> <<>>, toks |-> <<>>]

Catalogue ==
  << DataLine(PkgA \o <<" ">> \o V10 \o <<",">> \o V11, PkgA,
              <<Add(V10), Add(V11)>>),
     DataLine(PkgA \o <<" ", "-">> \o V10, PkgA, <<Del(V10)>>),
     DataLine(PkgA \o <<" ">> \o V10, PkgA, <<Add(V10)>>),
     DataLine(PkgB \o <<" ", "-">> \o V10, PkgB, <<Del(V10)>>),
     DataLine(PkgB \o <<" ">> \o V11, PkgB, <<Add(V11)>>),
     DataLine(<<" ", " ">> \o PkgA \o <<" ">> \o V11 \o <<" ">>, PkgA,
              <<Add(V11)>>),
     OtherLine(PkgA, "malformed"),
     OtherLine(HeaderMarker, "control"),
     OtherLine(CreatedAtPrefix \o <<" ", "2">>, "control"),
     OtherLine(<<>>, "control") >>

LineIds == 1..Len(Catalogue)
Pkgs == {PkgA, PkgB}
Versions == {V10, V11}

\* the text of a sequence of lines, each ended by a newline
RECURSIVE TextOf(_)
TextOf(ids) ==
  IF ids = <<>> THEN <<>>
  ELSE Catalogue[Head(ids)].text \o <<"\n">> \o TextOf(Tail(ids))

VARIABLES
  elapsed,                        \* getElapsedMinutes(lastSync)
  packageReleases,                \* let packageReleases
  contentLength,                  \* let contentLength
  updateRubyGemsVersionsPromise,  \* 0 (undefined / null) or a promise
  promises,                       \* the updateRubyGemsVersions calls made
  jobs,                           \* the microtask queue: settled awaits
  returned,                       \* what the step gave a lookup's caller
  feed,                           \* the lines of rubygems.org/versions
  lastRefresh,                    \* how the last refresh to end ended, and
                                  \* whether a lookup was made since
  applied, raised,                \* history of the parser specification
  fallback                        \* the getDependency call under way

vars == << elapsed, packageReleases, contentLength,
           updateRubyGemsVersionsPromise, promises, jobs, returned, feed,
           lastRefresh, applied, raised, fallback >>

(***************************************************************************)
(* The datasource.                                                         *)
(*                                                                         *)
(* The code reads lastSync and the clock only through                      *)
(* getElapsedMinutes(lastSync), so the state keeps that number: it is 0    *)
(* when lastSync = new Date() runs, it grows as the clock advances, and    *)
(* it is followed up to MaxElapsed minutes.                                *)
(*                                                                         *)
(* Where the record of a lookup under way is tells where the call stands:  *)
(* among the waiters of a pending promise (suspended at line 212), in a    *)
(* queued "sync" job (its await at line 212 has settled and its            *)
(* continuation is in the microtask queue) or in a queued "dep" job        *)
(* (syncVersions has returned and the continuation of line 53 is in the    *)
(* microtask queue).  lookupName takes no part in a lookup before line 54, *)
(* so it is drawn there.                                                   *)
(***************************************************************************)

\* getElapsedMinutes(lastSync) >= 5
StaleMinutes == 5

\* the age of new Date('2000-01-01')
Epoch == MaxElapsed

\* the age of new Date()
Now == 0

\* the comparison turned round
isDataStaleInverted(age) == age <= StaleMinutes

isDataStale(age) == age >= StaleMinutes

NoPromise == 0

\* what a lookup gives its caller: null, a ReleaseResult or the error thrown
NotFound == [kind |-> "null"]
HostError == [kind |-> "ExternalHostError"]
NoReturn == [kind |-> "none"]

\* the body of a response that has none
Undefined == [kind |-> "undefined"]

\* { releases: packageReleases[lookupName].map((version) => ({ version })) }
ReleaseResult(list) ==
  [kind |-> "ReleaseResult",
   releases |-> [i \in 1..Len(list) |-> [version |-> list[i]]]]

\* the releases built last version first
dependencyResultReversed(cache, name) ==
  IF ~HasKey(cache, name) THEN NotFound
  ELSE ReleaseResult([i \in 1..Len(cache[name]) |->
                        cache[name][Len(cache[name]) + 1 - i]])

\* lines 54-62 of getRubygemsOrgDependency
dependencyResult(cache, name) ==
  IF ~HasKey(cache, name) THEN NotFound ELSE ReleaseResult(cache[name])

\* the body the server sends for range: bytes=<offset>-
BodyFrom(text, offset) == SubSeq(text, offset + 1, Len(text))

\* a lookup; late: the promise it awaits had settled before it awaited
LookupOf(late) == [late |-> late]

SyncJob(p, ls) == [kind |-> "sync", p |-> p, ls |-> ls]
DepJob(l) == [kind |-> "dep", p |-> NoPromise, ls |-> <<l>>]

RECURSIVE DepJobs(_)
DepJobs(ls) ==
  IF ls = <<>> THEN <<>> ELSE <<DepJob(Head(ls))>> \o DepJobs(Tail(ls))

\* the lookups under way
RECURSIVE TotalLen(_)
TotalLen(ss) == IF ss = <<>> THEN 0 ELSE Len(Head(ss)) + TotalLen(Tail(ss))

UnderWay ==
  TotalLen([i \in 1..Len(promises) |-> promises[i].waiters])
    + TotalLen([i \in 1..Len(jobs) |-> jobs[i].ls])

Pending == {i \in 1..Len(promises) : promises[i].state = "pending"}

\* no getDependency call has been made
NoCall ==
  [pc |-> "idle", dependency |-> <<>>, info |-> Undefined,
   result |-> NoReturn]

Init ==
  /\ elapsed = Epoch
  /\ packageReleases = EmptyReleases
  /\ contentLength = 0
  /\ updateRubyGemsVersionsPromise = NoPromise
  /\ promises = <<>>
  /\ jobs = <<>>
  /\ returned = NoReturn
  /\ feed = <<>>
  /\ lastRefresh = "none"
  /\ applied = <<>>
  /\ raised = FALSE
  /\ fallback = NoCall

\* the first statements of updateRubyGemsVersions, up to the await of
\* http.get: the range header is built from contentLength at the call
startUpdate(length) ==
  [state |-> "pending", range |-> length, waiters |-> <<>>]

\* updateRubyGemsVersionsPromise || this.updateRubyGemsVersions()
startsUpdate(current) == current = NoPromise

\* await updateRubyGemsVersionsPromise: the lookup waits while the promise
\* is pending; on a settled promise its continuation is queued at once
Await(ps, p) ==
  IF ps[p].state = "pending"
    THEN /\ promises' =
              [ps EXCEPT ![p].waiters = Append(@, LookupOf(FALSE))]
         /\ jobs' = jobs
    ELSE /\ promises' = ps
         /\ jobs' = Append(jobs, SyncJob(p, <<LookupOf(TRUE)>>))

\* syncVersions of a lookup when the data is stale: lines 209-212
SyncStale ==
  IF startsUpdate(updateRubyGemsVersionsPromise)
    THEN /\ Len(promises) < MaxFetches
         /\ updateRubyGemsVersionsPromise' = Len(promises) + 1
         /\ Await(Append(promises, startUpdate(contentLength)),
                  Len(promises) + 1)
    ELSE /\ UNCHANGED updateRubyGemsVersionsPromise
         /\ Await(promises, updateRubyGemsVersionsPromise)

\* syncVersions of a lookup when the data is fresh: it returns at once and
\* the lookup goes on in a later microtask
SyncFresh ==
  /\ jobs' = Append(jobs, DepJob(LookupOf(FALSE)))
  /\ UNCHANGED <<promises, updateRubyGemsVersionsPromise>>

\* getReleases on rubygems.org: getRubygemsOrgDependency up to its await
Lookup ==
  /\ UnderWay < MaxLookups
  /\ returned' = NoReturn
  /\ IF isDataStale(elapsed) THEN SyncStale ELSE SyncFresh
  /\ lastRefresh' = IF lastRefresh = "fatal" THEN "fatal, then lookup"
                                             ELSE lastRefresh
  /\ UNCHANGED <<elapsed, packageReleases, contentLength, feed, applied,
                 raised, fallback>>

\* the promise of an updateRubyGemsVersions call settles: the continuations
\* of the lookups awaiting it are queued, in the order they awaited
Settle(p, state) ==
  /\ promises' = [promises EXCEPT ![p].state = state, ![p].waiters = <<>>]
  /\ jobs' = Append(jobs, SyncJob(p, promises[p].waiters))

\* http.get answers with the bytes from the offset on; lines 164-167
FetchDelta(p) ==
  /\ p \in Pending
  /\ returned' = NoReturn
  /\ LET text == TextOf(feed)
         r    == applyBody(BodyFrom(text, promises[p].range), packageReleases)
     IN  /\ promises[p].range < Len(text) \/ text = <<>>
         /\ packageReleases' = r.releases
         /\ IF r.raised
              THEN /\ Settle(p, "rejected")
                   /\ UNCHANGED elapsed
              ELSE /\ Settle(p, "fulfilled")
                   /\ elapsed' = Now
  /\ lastRefresh' = "delta"
  /\ UNCHANGED <<contentLength, updateRubyGemsVersionsPromise, feed,
                 applied, raised, fallback>>

\* the catch block with its test of the status missing: 416 resets the
\* cache and throws like any other failure
FetchNoUpdateReset(p) ==
  /\ p \in Pending
  /\ returned' = NoReturn
  /\ contentLength' = 0
  /\ packageReleases' = EmptyReleases
  /\ promises' = [promises EXCEPT ![p].state = "rejected",
                                  ![p].waiters = <<>>]
  /\ jobs' = Append(jobs, [kind |-> "sync", p |-> p,
                           ls |-> promises[p].waiters])
  /\ lastRefresh' = "noupdate"
  /\ UNCHANGED <<elapsed, updateRubyGemsVersionsPromise, feed, applied,
                 raised, fallback>>

\* http.get fails with status 416: lines 159-161.  The status is the
\* server's to choose: the catch block takes this branch whatever range the
\* request asked for
FetchNoUpdate(p) ==
  /\ p \in Pending
  /\ returned' = NoReturn
  /\ elapsed' = Now
  /\ Settle(p, "fulfilled")
  /\ lastRefresh' = "noupdate"
  /\ UNCHANGED <<packageReleases, contentLength,
                 updateRubyGemsVersionsPromise, feed, applied, raised, fallback>>

\* the catch block without its throw: the call returns after the reset
FetchFatalSwallowed(p) ==
  /\ p \in Pending
  /\ returned' = NoReturn
  /\ contentLength' = 0
  /\ packageReleases' = EmptyReleases
  /\ Settle(p, "fulfilled")
  /\ lastRefresh' = "fatal"
  /\ UNCHANGED <<elapsed, updateRubyGemsVersionsPromise, feed, applied,
                 raised, fallback>>

\* the catch block without line 154: the offset is reset and the cache kept
FetchFatalKeepsCache(p) ==
  /\ p \in Pending
  /\ returned' = NoReturn
  /\ contentLength' = 0
  /\ Settle(p, "rejected")
  /\ lastRefresh' = "fatal"
  /\ UNCHANGED <<elapsed, packageReleases, updateRubyGemsVersionsPromise,
                 feed, applied, raised, fallback>>

\* http.get fails with another status: lines 152-157
FetchFatal(p) ==
  /\ p \in Pending
  /\ returned' = NoReturn
  /\ contentLength' = 0
  /\ packageReleases' = EmptyReleases
  /\ Settle(p, "rejected")
  /\ lastRefresh' = "fatal"
  /\ UNCHANGED <<elapsed, updateRubyGemsVersionsPromise, feed, applied,
                 raised, fallback>>

\* the continuations of syncVersions queued by one settled promise run: on
\* fulfilment line 213 and the return, on rejection the error leaves
\* syncVersions and getRubygemsOrgDependency
RunSync ==
  /\ jobs # <<>>
  /\ Head(jobs).kind = "sync"
  /\ IF promises[Head(jobs).p].state = "fulfilled"
       THEN /\ updateRubyGemsVersionsPromise' = NoPromise
            /\ jobs' = Tail(jobs) \o DepJobs(Head(jobs).ls)
            /\ returned' = NoReturn
       ELSE /\ UNCHANGED updateRubyGemsVersionsPromise
            /\ returned' = HostError
            /\ jobs' = Tail(jobs)
  /\ UNCHANGED <<elapsed, packageReleases, contentLength, promises, feed,
                 lastRefresh, applied, raised, fallback>>

\* getRubygemsOrgDependency after await this.syncVersions(): lines 54-62
RunDep(lookupName) ==
  /\ jobs # <<>>
  /\ Head(jobs).kind = "dep"
  /\ returned' = dependencyResult(packageReleases, lookupName)
  /\ jobs' = Tail(jobs)
  /\ UNCHANGED <<elapsed, packageReleases, contentLength,
                 updateRubyGemsVersionsPromise, promises, feed, lastRefresh,
                 applied, raised, fallback>>

\* resetCache: lines 19-23
resetCache ==
  /\ returned' = NoReturn
  /\ elapsed' = Epoch
  /\ packageReleases' = EmptyReleases
  /\ contentLength' = 0
  /\ UNCHANGED <<updateRubyGemsVersionsPromise, promises, jobs, feed,
                 lastRefresh, applied, raised, fallback>>

\* a minute passes
Tick ==
  /\ elapsed < MaxElapsed
  /\ returned' = NoReturn
  /\ elapsed' = elapsed + 1
  /\ UNCHANGED <<packageReleases, contentLength,
                 updateRubyGemsVersionsPromise, promises, jobs, feed,
                 lastRefresh, applied, raised, fallback>>

\* the lines rubygems.org/versions grows by, in order: the two lines of its
\* head, "a 1.0,1.1", "b -1.0" and then the rest of the catalogue
FeedOrder == <<9, 8, 1, 4, 2, 5, 3, 6, 7, 10>>

\* rubygems.org appends a line to the feed
FeedAppend ==
  /\ Len(feed) < MaxFeedLines
  /\ Len(feed) < Len(FeedOrder)
  /\ returned' = NoReturn
  /\ feed' = Append(feed, FeedOrder[Len(feed) + 1])
  /\ UNCHANGED <<elapsed, packageReleases, contentLength,
                 updateRubyGemsVersionsPromise, promises, jobs, lastRefresh,
                 applied, raised, fallback>>

Next ==
  \/ Lookup
  \/ \E p \in 1..MaxFetches : FetchDelta(p)
  \/ \E p \in 1..MaxFetches : FetchNoUpdate(p)
  \/ \E p \in 1..MaxFetches : FetchFatal(p)
  \/ RunSync
  \/ \E lookupName \in Pkgs : RunDep(lookupName)
  \/ resetCache
  \/ Tick
  \/ FeedAppend

Spec == Init /\ [][Next]_vars

\* the datasource without resetCache, which only tests call
ProductionNext ==
  \/ Lookup
  \/ \E p \in 1..MaxFetches : FetchDelta(p)
  \/ \E p \in 1..MaxFetches : FetchNoUpdate(p)
  \/ \E p \in 1..MaxFetches : FetchFatal(p)
  \/ RunSync
  \/ \E lookupName \in Pkgs : RunDep(lookupName)
  \/ Tick
  \/ FeedAppend

ProductionSpec == Init /\ [][ProductionNext]_vars

(***************************************************************************)
(* getDependency: the lookup on a registry other than rubygems.org, which  *)
(* asks the registry's info endpoint and then its versions endpoint.  The  *)
(* registry takes part only in the URLs, so the call keeps the dependency. *)
(***************************************************************************)
\* versions a versions endpoint answers with at most
MaxVersions == 2

UpperCase == << "A", "B", "C", "D", "E", "F", "G", "H", "I", "J", "K", "L",
                "M", "N", "O", "P", "Q", "R", "S", "T", "U", "V", "W", "X",
                "Y", "Z" >>
LowerCase == << "a", "b", "c", "d", "e", "f", "g", "h", "i", "j", "k", "l",
                "m", "n", "o", "p", "q", "r", "s", "t", "u", "v", "w", "x",
                "y", "z" >>

\* String.prototype.toLowerCase
toLowerCase(s) ==
  [i \in 1..Len(s) |->
     IF \E k \in 1..Len(UpperCase) : UpperCase[k] = s[i]
       THEN LowerCase[CHOOSE k \in 1..Len(UpperCase) : UpperCase[k] = s[i]]
       ELSE s[i]]

\* the comparison without toLowerCase
namesDifferExactly(dependency, name) == dependency # name

\* dependency.toLowerCase() !== info.name.toLowerCase()
namesDiffer(dependency, name) == toLowerCase(dependency) # toLowerCase(name)

NameFoo == <<"f", "o", "o">>
NameFooCapital == <<"F", "o", "o">>
NameBar == <<"b", "a", "r">>
GemNames == {NameFoo, NameFooCapital, NameBar}

NoVersion == <<>>
RubyPlatform == <<"r", "u", "b", "y">>
JavaPlatform == <<"j", "a", "v", "a">>

\* the bodies the info endpoint answers with
InfoBody(name, version) ==
  [kind |-> "info", name |-> name, version |-> version,
   platform |-> RubyPlatform, homepage_uri |-> "homepage",
   source_code_uri |-> "source", changelog_uri |-> "changelog"]

InfoBodies == {InfoBody(name, version) :
                 name \in GemNames, version \in {NoVersion, V10}}

\* the entries the versions endpoint answers with
VersionEntry(number, platform) ==
  [number |-> number, platform |-> platform, created_at |-> "created",
   rubygems_version |-> "rubygems", ruby_version |-> "ruby"]

VersionEntries == {VersionEntry(V10, RubyPlatform),
                   VersionEntry(V11, JavaPlatform)}

VersionBodies == UNION {[1..k -> VersionEntries] : k \in 0..MaxVersions}

\* the status codes of a failed request
StatusCodes == {400, 404, 500}

HttpError(statusCode) == [kind |-> "HTTPError", statusCode |-> statusCode]
TypeError == [kind |-> "TypeError"]

\* lines 99-123: the releases of the result
fallbackReleases(info, versions) ==
  IF Len(versions) = 0 /\ info.version # NoVersion
    THEN << [version |-> info.version, rubyPlatform |-> info.platform] >>
    ELSE [i \in 1..Len(versions) |->
            [version |-> versions[i].number,
             rubyPlatform |-> versions[i].platform,
             releaseTimestamp |-> versions[i].created_at,
             rubygemsVersion |-> versions[i].rubygems_version,
             rubyVersion |-> versions[i].ruby_version]]

\* lines 125-130
fallbackResult(info, versions) ==
  [kind |-> "ReleaseResult",
   releases |-> fallbackReleases(info, versions),
   homepage |-> info.homepage_uri,
   sourceUrl |-> info.source_code_uri,
   changelogUrl |-> info.changelog_uri]

DatasourceVars ==
  << elapsed, packageReleases, contentLength, updateRubyGemsVersionsPromise,
     promises, jobs, returned, feed, lastRefresh, applied, raised >>

\* the call ends: it returns or throws result
Ends(result) == fallback' = [fallback EXCEPT !.pc = "done", !.result = result]

\* getReleases on another registry: getDependency up to the await of line 70
getDependency(dependency) ==
  /\ fallback.pc \in {"idle", "done"}
  /\ fallback' = [pc |-> "info", dependency |-> dependency,
                  info |-> Undefined, result |-> NoReturn]
  /\ UNCHANGED DatasourceVars

\* the info endpoint answers: lines 70-82 (fetch gives undefined when
\* getJson gives no response)
InfoResponse(body) ==
  /\ fallback.pc = "info"
  /\ IF body = Undefined
       THEN Ends(NotFound)
       ELSE IF namesDiffer(fallback.dependency, body.name)
         THEN fallback' = [fallback EXCEPT !.pc = "done", !.info = body,
                                           !.result = NotFound]
         ELSE fallback' = [fallback EXCEPT !.pc = "versions", !.info = body]
  /\ UNCHANGED DatasourceVars

\* the request of line 70 fails: the error leaves getDependency
InfoFails(statusCode) ==
  /\ fallback.pc = "info"
  /\ Ends(HttpError(statusCode))
  /\ UNCHANGED DatasourceVars

\* the versions endpoint answers: line 87 and lines 99-130
VersionsResponse(versions) ==
  /\ fallback.pc = "versions"
  /\ Ends(fallbackResult(fallback.info, versions))
  /\ UNCHANGED DatasourceVars

\* the versions endpoint gives no response: fetch returns undefined and
\* versions.length at line 99 throws
VersionsNoResponse ==
  /\ fallback.pc = "versions"
  /\ Ends(TypeError)
  /\ UNCHANGED DatasourceVars

\* the request of line 87 fails: lines 88-97, then lines 99-130 with
\* versions = []
VersionsFails(statusCode) ==
  /\ fallback.pc = "versions"
  /\ IF statusCode = 400 \/ statusCode = 404
       THEN Ends(fallbackResult(fallback.info, <<>>))
       ELSE Ends(HttpError(statusCode))
  /\ UNCHANGED DatasourceVars

FallbackNext ==
  \/ \E dependency \in GemNames : getDependency(dependency)
  \/ \E body \in InfoBodies \cup {Undefined} : InfoResponse(body)
  \/ \E statusCode \in StatusCodes : InfoFails(statusCode)
  \/ \E versions \in VersionBodies : VersionsResponse(versions)
  \/ VersionsNoResponse
  \/ \E statusCode \in StatusCodes : VersionsFails(statusCode)

FallbackSpec == Init /\ [][FallbackNext]_vars


(***************************************************************************)
(* The parser on its own: deltas drawn from the catalogue are applied to   *)
(* the cache, as lines 164-167 apply the body of a response.               *)
(***************************************************************************)
RECURSIVE Flatten(_)
Flatten(ss) == IF ss = <<>> THEN <<>> ELSE Head(ss) \o Flatten(Tail(ss))

DeltasUpTo(n) == UNION {[1..k -> LineIds] : k \in 1..n}

Deltas == DeltasUpTo(MaxDeltaLines)

\* the lines that may still be applied
Room ==
  LET left == MaxHistory - Len(Flatten(applied))
  IN  IF left < MaxDeltaLines THEN left ELSE MaxDeltaLines

\* lines 164-167 on the body of a response
ApplyDelta(delta) ==
  /\ Len(Flatten(applied)) + Len(delta) <= MaxHistory
  /\ LET r == applyBody(TextOf(delta), packageReleases)
     IN  /\ packageReleases' = r.releases
         /\ raised' = r.raised
         /\ elapsed' = IF r.raised THEN elapsed ELSE Now
  /\ applied' = Append(applied, delta)
  /\ UNCHANGED <<contentLength, updateRubyGemsVersionsPromise,
                 promises, jobs, returned, feed, lastRefresh, fallback>>

ParserNext == \E delta \in DeltasUpTo(Room) : ApplyDelta(delta)

ParserSpec == Init /\ [][ParserNext]_vars

(***************************************************************************)
(* What the feed format says a sequence of lines means, read from the      *)
(* catalogue and not from the parser.                                      *)
(***************************************************************************)
\* the tokens the lines give for a package, in feed order
RECURSIVE TokensOf(_, _)
TokensOf(ids, pkg) ==
  IF ids = <<>> THEN <<>>
  ELSE (IF Catalogue[Head(ids)].pkg = pkg THEN Catalogue[Head(ids)].toks
                                          ELSE <<>>)
         \o TokensOf(Tail(ids), pkg)

\* the list a sequence of tokens makes of a list
RECURSIVE ListAfter(_, _)
ListAfter(list, toks) ==
  IF toks = <<>> THEN list
  ELSE ListAfter(IF Head(toks).add
                   THEN Append(list, Head(toks).v)
                   ELSE SelectSeq(list, LAMBDA x : x # Head(toks).v),
                 Tail(toks))

ListOf(cache, pkg) == IF pkg \in DOMAIN cache THEN cache[pkg] ELSE <<>>

Elements(list) == {list[i] : i \in 1..Len(list)}

\* the last token of toks that mentions version v, as a sequence of 0 or 1
LastMention(toks, v) ==
  LET at == {i \in 1..Len(toks) : toks[i].v = v}
  IN  IF at = {} THEN <<>>
      ELSE <<toks[CHOOSE i \in at : \A j \in at : j <= i]>>

(***************************************************************************)
(* Claims about the parser, checked under ParserSpec.                      *)
(***************************************************************************)

\* C7: tokens and lines are applied in feed order: after any sequence of
\* lines, in one delta or in several, a version whose last token for a
\* package is a removal is absent from the package's list, and one whose
\* last token is an addition is present; "a 1.0,1.1" followed by "a -1.0"
\* makes the lookup of a give exactly 1.1.
AdditionRemovalOrdering ==
  /\ \A p \in Pkgs, v \in Versions :
       LET m == LastMention(TokensOf(Flatten(applied), p), v)
       IN  m # <<>> =>
             (m[1].add <=> v \in Elements(ListOf(packageReleases, p)))
  /\ Flatten(applied) = <<1, 2>> =>
       dependencyResult(packageReleases, PkgA) = ReleaseResult(<<V11>>)

\* C7 witness: the addition and the removal came in two successive deltas
\* and 1.1 alone is left
RemovalAfterAdditionApplied ==
  /\ applied = << <<1>>, <<2>> >>
  /\ packageReleases = (PkgA :> <<V11>>)

\* the delta a step applies
Applying(delta) == applied' = Append(applied, delta)

\* a delta of one data line that only removes versions the package does
\* not have
RemovesOnlyMissing(delta, cache) ==
  /\ Len(delta) = 1
  /\ Catalogue[delta[1]].kind = "data"
  /\ \A i \in 1..Len(Catalogue[delta[1]].toks) :
       LET tok == Catalogue[delta[1]].toks[i]
       IN  /\ ~tok.add
           /\ tok.v \notin Elements(ListOf(cache, Catalogue[delta[1]].pkg))

\* C8: a removal token for a version the package does not have, the package
\* having no entry included, leaves the whole cache as it was (the same
\* keys, the same lists) and raises nothing.
RemovalOfMissingIsNoOp ==
  [][\A delta \in Deltas :
       Applying(delta) /\ RemovesOnlyMissing(delta, packageReleases)
         => packageReleases' = packageReleases /\ raised' = FALSE]_vars

HasMalformed(delta) ==
  \E i \in 1..Len(delta) : Catalogue[delta[i]].kind = "malformed"

\* C9: a delta with a malformed line (no space) raises nothing, every entry
\* the cache had is what the well-formed lines of the delta make of it (the
\* malformed line changes none), and the lines after the malformed one are
\* applied.
MalformedLineSkipped ==
  [][\A delta \in Deltas :
       Applying(delta) /\ HasMalformed(delta)
         => /\ raised' = FALSE
            /\ \A p \in Pkgs :
                 p \in DOMAIN packageReleases \/ TokensOf(delta, p) # <<>>
                   => /\ p \in DOMAIN packageReleases'
                      /\ packageReleases'[p] =
                           ListAfter(ListOf(packageReleases, p),
                                     TokensOf(delta, p))]_vars

\* C9 witness: "a" (malformed) and then "b 1.1" were applied in one delta to
\* a cache that had an entry for a
MalformedThenDataApplied ==
  /\ applied = << <<1>>, <<7, 5>> >>
  /\ packageReleases = (PkgA :> <<V10, V11>> @@ PkgB :> <<V11>>)
  /\ ~raised

\* a delta without a data line: blank lines, '---' and 'created_at:' lines
OnlyControlLines(delta) ==
  \A i \in 1..Len(delta) : Catalogue[delta[i]].kind = "control"

\* C17: applying a delta that has no data line leaves packageReleases as it
\* was, entry for entry, raises nothing and sets lastSync to the time of the
\* refresh.
EmptyDeltaIdempotent ==
  [][\A delta \in Deltas :
       Applying(delta) /\ OnlyControlLines(delta)
         => /\ packageReleases' = packageReleases
            /\ raised' = FALSE
            /\ elapsed' = Now]_vars

\* C17 witness: '---' and a blank line were applied to a cache that holds
\* the versions of a, which it still holds
ControlLinesOverFilledCache ==
  /\ applied = << <<1>>, <<8, 10>> >>
  /\ packageReleases = (PkgA :> <<V10, V11>>)
  /\ elapsed = Now
  /\ ~raised

\* a delta whose lines are all data lines
OnlyDataLines(delta) ==
  \A i \in 1..Len(delta) : Catalogue[delta[i]].kind = "data"

\* C18: after a delta of data lines the list of every package the delta
\* names is its list before with the tokens applied in order, where a
\* removal token takes out every entry equal to its version and keeps the
\* other entries in their order, and an addition token appends its version
\* whether or not the list has it already.
RemovalTakesAllAdditionAppends ==
  [][\A delta \in Deltas :
       Applying(delta) /\ OnlyDataLines(delta)
         => \A p \in Pkgs :
              TokensOf(delta, p) # <<>>
                => /\ p \in DOMAIN packageReleases'
                   /\ packageReleases'[p] =
                        ListAfter(ListOf(packageReleases, p),
                                  TokensOf(delta, p))]_vars

\* C18 witness: 1.0 was added twice ("a 1.0,1.1", then "a 1.0") and the one
\* removal "a -1.0" took both entries
DuplicateRemovedTwice ==
  /\ applied = << <<1>>, <<3>>, <<2>> >>
  /\ packageReleases = (PkgA :> <<V11>>)

(***************************************************************************)
(* Claims about the datasource, checked under Spec.                        *)
(***************************************************************************)
LookupStep == Lookup
FatalStep == \E p \in 1..MaxFetches : FetchFatal(p)
IssuesFetch == Len(promises') = Len(promises) + 1

\* C1: single-flight: the lookups that called syncVersions while the data
\* was stale and are waiting for a refresh to complete all wait for one and
\* the same updateRubyGemsVersions call, so one fetch serves them all and
\* they end with its outcome.
LookupsShareOneFetch ==
  \A i, j \in 1..Len(promises) :
    promises[i].waiters # <<>> /\ promises[j].waiters # <<>> => i = j

\* C2: in every reachable state at most one updateRubyGemsVersions fetch is
\* in flight.
AtMostOneFetchInFlight == Cardinality(Pending) <= 1

\* C3: a refresh that ends Fatal leaves packageReleases empty and
\* contentLength 0, and the very next syncVersions call, the data being
\* still stale, starts a new fetch whose range header is bytes=0-.
FatalThenFullRefetch ==
  [][/\ FatalStep => packageReleases' = EmptyReleases /\ contentLength' = 0
     /\ LookupStep /\ lastRefresh = "fatal" /\ isDataStale(elapsed)
          => IssuesFetch /\ promises'[Len(promises')].range = 0]_vars

\* C4: a Fatal outcome makes lookups fail for that refresh round only: no
\* lookup that called syncVersions after the round had ended is given the
\* failure of that round.
FailureEndsWithItsRound ==
  \A i \in 1..Len(jobs) :
    jobs[i].kind = "sync" /\ promises[jobs[i].p].state = "rejected"
      => \A k \in 1..Len(jobs[i].ls) : ~jobs[i].ls[k].late

\* C5: staleness gating: a lookup made less than 5 minutes after the last
\* refresh issues no fetch; after a refresh that completed successfully and
\* whose lookups have returned, a lookup made once 5 minutes have elapsed
\* issues a new fetch.
StalenessGating ==
  [][LookupStep =>
       /\ elapsed < StaleMinutes => promises' = promises
       /\ /\ elapsed >= StaleMinutes
          /\ lastRefresh \in {"delta", "noupdate"}
          /\ UnderWay = 0
          => IssuesFetch]_vars

\* C5 witness: a refresh has completed successfully, its lookup has
\* returned, the window has elapsed and the next lookup has its fetch in
\* flight
SecondFetchAfterWindow ==
  /\ lastRefresh = "delta"
  /\ elapsed >= StaleMinutes
  /\ Len(promises) = 2
  /\ promises[1].state = "fulfilled"
  /\ promises[2].state = "pending"
  /\ UnderWay = 1

\* the version strings of a ReleaseResult
VersionsOf(res) == [i \in 1..Len(res.releases) |-> res.releases[i].version]

\* C6: after syncVersions the lookup returns null when the cache has no
\* entry for the name, and otherwise a result whose releases are exactly the
\* cached version strings of the name, in cache order.
CanonicalLookupResult ==
  [][\A name \in Pkgs :
       RunDep(name) =>
         IF name \in DOMAIN packageReleases
           THEN /\ returned'.kind = "ReleaseResult"
                /\ VersionsOf(returned') = packageReleases[name]
           ELSE returned' = NotFound]_vars

\* C6 witness: a lookup has returned the two versions of a
TwoReleasesReturned ==
  /\ returned.kind = "ReleaseResult"
  /\ VersionsOf(returned) = <<V10, V11>>

\* C10: resetCache clears packageReleases, sets contentLength to 0, sets
\* lastSync far in the past and clears the handle of a refresh in flight.
ResetClearsEverything ==
  [][resetCache =>
       /\ packageReleases' = EmptyReleases
       /\ contentLength' = 0
       /\ elapsed' = Epoch
       /\ updateRubyGemsVersionsPromise' = NoPromise]_vars

(***************************************************************************)
(* Claims about getDependency, checked under FallbackSpec.                 *)
(***************************************************************************)
\* the call has ended after the info endpoint answered with a body
AnsweredWithInfo == fallback.pc = "done" /\ fallback.info # Undefined

\* C11 as stated: when the info endpoint answers a request for foo with a
\* package named Foo, getDependency returns not-found.
CaseDifferentNameNotFound ==
  /\ AnsweredWithInfo
  /\ fallback.dependency = NameFoo
  /\ fallback.info.name = NameFooCapital
  => fallback.result = NotFound

\* C11 as amended: getDependency returns not-found when the name the info
\* endpoint answers with differs from the requested one by more than the
\* case of its letters; a name that differs only in case is accepted, and
\* the call goes on to the versions endpoint and does not return not-found.
NameMismatchNotFound ==
  AnsweredWithInfo =>
    IF toLowerCase(fallback.dependency) = toLowerCase(fallback.info.name)
      THEN fallback.result # NotFound
      ELSE fallback.result = NotFound

\* C11 witness: foo was requested, the info endpoint named Foo and the call
\* returned releases
CaseDifferentNameAccepted ==
  /\ AnsweredWithInfo
  /\ fallback.dependency = NameFoo
  /\ fallback.info.name = NameFooCapital
  /\ fallback.result.kind = "ReleaseResult"
  /\ fallback.result.releases # <<>>

(***************************************************************************)
(* Claims about the refresh, checked under Spec and ProductionSpec.        *)
(***************************************************************************)
\* a lookup is suspended at line 212 or its continuation has yet to run
AwaitingRefresh ==
  \/ \E i \in 1..Len(promises) : promises[i].waiters # <<>>
  \/ \E j \in 1..Len(jobs) : jobs[j].kind = "sync"

\* C12: whenever no updateRubyGemsVersions call is running and no caller is
\* still awaiting one, updateRubyGemsVersionsPromise is empty, whether the
\* refreshes that completed succeeded or failed.
HandleClearedOnCompletion ==
  Pending = {} /\ ~AwaitingRefresh
    => updateRubyGemsVersionsPromise = NoPromise

\* the body a pending call is answered with when it is answered now
DeltaOf(p) == BodyFrom(TextOf(feed), promises[p].range)

\* C13: when a refresh started at offset o receives a Delta of length n,
\* contentLength becomes o + n, and the next refresh asks for the range that
\* starts there.
OffsetAdvance ==
  [][/\ \A p \in 1..MaxFetches :
          FetchDelta(p) =>
            contentLength' = promises[p].range + Len(DeltaOf(p))
     /\ LookupStep /\ IssuesFetch
          => promises'[Len(promises')].range = contentLength]_vars

\* the continuations of a refresh that was rejected are next to run
RejectionNext ==
  /\ jobs # <<>>
  /\ Head(jobs).kind = "sync"
  /\ promises[Head(jobs).p].state = "rejected"

\* C14: on a Fatal outcome the refresh is rejected and the continuation of
\* every lookup that awaits it is queued with the rejection; when it runs,
\* the lookups are given an ExternalHostError and none of them goes on to
\* read the cache.
FatalReachesEveryWaiter ==
  [][/\ \A p \in 1..MaxFetches :
          FetchFatal(p) =>
            /\ promises'[p].state = "rejected"
            /\ promises'[p].waiters = <<>>
            /\ jobs' = Append(jobs, SyncJob(p, promises[p].waiters))
     /\ RunSync /\ RejectionNext =>
          /\ returned'.kind = "ExternalHostError"
          /\ jobs' = Tail(jobs)]_vars

\* C14 witness: a refresh ended Fatal and the lookups that awaited it were
\* given the ExternalHostError, no lookup having been made since
WaitersGivenHostError ==
  /\ lastRefresh = "fatal"
  /\ returned.kind = "ExternalHostError"
  /\ \E p \in 1..Len(promises) : promises[p].state = "rejected"

\* C15: a refresh whose fetch fails with status 416 changes lastSync only:
\* packageReleases and contentLength are as they were, lastSync is the time
\* of the step so that the data is fresh, the call is fulfilled and the
\* continuation of every lookup that awaits it is queued; when it runs the
\* lookups are given no error and go on to read the cache.
NoUpdateTouchesLastSyncOnly ==
  [][/\ \A p \in 1..MaxFetches :
          FetchNoUpdate(p) =>
            /\ packageReleases' = packageReleases
            /\ contentLength' = contentLength
            /\ elapsed' = Now
            /\ elapsed' < StaleMinutes
            /\ promises'[p].state = "fulfilled"
            /\ jobs' = Append(jobs, SyncJob(p, promises[p].waiters))
     /\ RunSync /\ ~RejectionNext =>
          /\ returned'.kind = "none"
          /\ jobs' = Tail(jobs) \o DepJobs(Head(jobs).ls)]_vars

\* C15 witness: a refresh has just ended with 416 over a cache that holds
\* versions, and the lookup that awaited it is about to go on
NoUpdateOverFilledCache ==
  /\ lastRefresh = "noupdate"
  /\ PkgA \in DOMAIN packageReleases
  /\ elapsed = Now
  /\ Len(promises) = 2
  /\ promises[2].state = "fulfilled"
  /\ jobs = <<SyncJob(2, <<LookupOf(FALSE)>>)>>

\* C16: in every step contentLength stays the same, increases, or is set to
\* 0 together with the clearing of packageReleases; a step that empties the
\* cache leaves the offset 0, and the steps that reset (the Fatal outcome
\* and resetCache) reset both.
OffsetResetWithCache ==
  [][/\ \/ contentLength' >= contentLength
        \/ contentLength' = 0 /\ packageReleases' = EmptyReleases
     /\ packageReleases # EmptyReleases /\ packageReleases' = EmptyReleases
          => contentLength' = 0
     /\ FatalStep \/ resetCache
          => contentLength' = 0 /\ packageReleases' = EmptyReleases]_vars

\* C16 witness: a first refresh was applied, a second one ended Fatal, and
\* the cache is empty with the offset at 0
FatalResetBoth ==
  /\ lastRefresh = "fatal"
  /\ Len(promises) = 2
  /\ promises[1].state = "fulfilled"
  /\ promises[2].state = "rejected"
  /\ packageReleases = EmptyReleases
  /\ contentLength = 0

\* no refresh has ended Fatal
NoFatalYet == \A i \in 1..Len(promises) : promises[i].state # "rejected"

\* every line of the feed applied once, in feed order, to an empty cache
MirrorOf(ids) == applyBody(TextOf(ids), EmptyReleases).releases

\* C19: as long as no refresh has ended Fatal and the cache has not been
\* reset, a refresh that succeeds leaves packageReleases equal to the feed's
\* lines applied exactly once in feed order to an empty cache.
MirrorConsistency ==
  [][\A p \in 1..MaxFetches :
       FetchDelta(p) /\ NoFatalYet => packageReleases' = MirrorOf(feed)]_vars

\* C20: a lookup on rubygems.org never returns a result whose releases list
\* is empty: a package without a version in the cache is reported not-found.
NoEmptyReleases ==
  returned.kind = "ReleaseResult" => returned.releases # <<>>

====
